---- MODULE Spec2Model ----
(***************************************************************************)
(* Model of the simulated-annealing engine of src/src/lib.rs:              *)
(* annealing (the orchestrator) and do_annealing (the single-run solver),  *)
(* run against a small concrete Annealer.                                  *)
(*                                                                         *)
(* Numbers.  Scores are integers.  Temperatures are powers of two and are  *)
(* stored as their base-2 exponent (temp = 2^e), so that the decay factor  *)
(* exp(ln(t_min / t_max) / steps) is the exponent (t_min - t_max) / steps  *)
(* and temp *= decay is an addition: the arithmetic is exact.  Inputs are  *)
(* restricted to those for which the division is exact.  A uniform draw u  *)
(* is stored as v with u = 2^(-v).  Exponentials are taken to base 2,      *)
(* which only rescales the scores.                                         *)
(***************************************************************************)
EXTENDS Integers, Naturals, Sequences, FiniteSets, TLC

\* ---- bounds of the model ------------------------------------------------
MaxThreads == 2
MaxSteps == 2
MaxRestart == 2
MaxSeed == 2
\* exponent from which a temperature is +inf (f64 overflow)
TempInf == 3

\* ---- values -------------------------------------------------------------
\* Option::None (thread_id, and the optional fields of the test Annealer)
None == -1

Calls == {1, 2}
Slots == 0 .. (MaxThreads - 1)
Runs == Calls \X Slots

Min(a, b) == IF a <= b THEN a ELSE b

\* ---- the pseudorandom generators (opaque to the engine) -----------------
\* Both are small full-period linear congruential generators; the state is
\* the last output.
RngMod == 16

\* SmallRng::seed_from_u64
SmallSeedFromU64(s) == (7 * s + 1) % RngMod

\* one step of SmallRng: the new generator state, which is also the output
SmallGen(g) == (5 * g + 3) % RngMod

\* StdRng::seed_from_u64
StdSeedFromU64(s) == (7 * s + 5) % RngMod

\* one step of StdRng
StdGen(g) == (13 * g + 7) % RngMod

\* rng.gen::<u64>() narrowed to the model's seed range
GenSeed(g) == g % (MaxSeed + 1)

\* rng.gen::<f64>() as v with u = 2^(-v), v in 1..4
GenUniform(g) == 1 + (g \div 4)

\* ---- the Annealer under test --------------------------------------------
\* State: a position on a ring of NumStates cells.  Move: +1 or -1.
Landscape == <<0, 2, 1, 3, 0>>
NumStates == Len(Landscape)
States == 0 .. (NumStates - 1)

\* init_state(rng): consumes one draw
init_state(g) == g % NumStates

\* eval: a pure function of the state
eval(a, s) == Landscape[s + 1]

\* eval panics on the annealer's faulty state, if it has one
eval_panics(a, s) == a.panicAt # None /\ s = a.panicAt

\* start_temp(init_score): the exponent of the starting temperature
start_temp(a, init_score) == a.startExp

\* is_done: the default body returns false; the override is a threshold
is_done(a, score) == a.doneBelow # None /\ score <= a.doneBelow

\* neighbour(state, rng): consumes one draw, does not touch the state
neighbour(s, g) == IF (g \div 2) % 2 = 0 THEN 1 ELSE -1

apply(s, mov) == (s + mov + NumStates) % NumStates

unapply(s, mov) == (s - mov + NumStates) % NumStates

\* default body of apply_and_eval: apply (the state is mutated), then eval
\* from scratch
apply_and_eval(a, s, mov, prev_score) ==
  LET s2 == apply(s, mov)
  IN  [state |-> s2, score |-> eval(a, s2)]

\* apply_and_eval panics when its eval does
apply_and_eval_panics(a, s, mov) == eval_panics(a, apply(s, mov))

\* ---- inputs --------------------------------------------------------------
\* AnnealingOptions (silent only gates diagnostics and is left out)
LimitExps == {0}
Opts ==
  [steps : 1 .. MaxSteps, limit_temp : LimitExps,
   restart : 0 .. MaxRestart, threads : 0 .. MaxThreads]

Annealers ==
  [startExp : (0 - MaxSteps) .. MaxSteps, doneBelow : {None, 0}, panicAt : {None, 3}]

Seeds == 0 .. MaxSeed

\* the inputs for which the decay exponent is an integer
ExactInputs(o, a) == (o.limit_temp - a.startExp) % o.steps = 0

\* ---- state ---------------------------------------------------------------
VARIABLES
  opt,       \* the AnnealingOptions passed to annealing
  seed,      \* the seed passed to annealing
  annealer,  \* the Annealer passed to annealing
  call,      \* call[c]: the frame of invocation c of annealing
  run        \* run[<<c, i>>]: the frame of the i-th do_annealing of invocation c

vars == <<opt, seed, annealer, call, run>>

NoResult == [score |-> None, state |-> None]

\* the part of a frame that is recorded when a move is proposed
Snapshot(r) ==
  [rng |-> r.rng, state |-> r.state, cur_score |-> r.cur_score,
   best_score |-> r.best_score, best_ans |-> r.best_ans,
   restart_cnt |-> r.restart_cnt, temp |-> r.temp,
   unapplies |-> r.unapplies, clones |-> r.clones, is_dones |-> r.is_dones]

\* a do_annealing that has not been entered.  Besides the variables of the
\* function the frame records what the run has done so far:
\*   init_score, reheats, exit, iters  the initial score, the resets to t_max,
\*                           the way the loop was left, the steps taken
\*   pre                     the frame as it was when the last move was proposed
\*   outcome, u              what became of the last move, and the uniform draw
\*                           made for it (None when no draw was made)
\*   unapplies, unapplied    the calls of unapply, and the move of the last one
\*   accepts                 the accepted moves
\*   is_dones, done_arg, done_seen  the calls of is_done, the score passed to
\*                           the last one, and whether one returned true
\*   clones                  the calls of state.clone()
\*   pass_moves, pass_decays the moves proposed and the multiplications by
\*                           decay since the temperature was last set to t_max
\*   visited                 the states the search has stood on, in order
IdleRun ==
  [pc |-> "idle", seed |-> 0, thread_id |-> None, spawned |-> FALSE,
   rng |-> 0, state |-> 0, cur_score |-> 0, best_score |-> 0, best_ans |-> 0,
   restart_cnt |-> 0, t_max |-> 0, t_min |-> 0, decay |-> 0, temp |-> 0,
   mov |-> 0, new_score |-> 0,
   init_score |-> 0, reheats |-> 0, exit |-> "none", iters |-> 0,
   pre |-> [rng |-> 0, state |-> 0, cur_score |-> 0, best_score |-> 0,
            best_ans |-> 0, restart_cnt |-> 0, temp |-> 0, unapplies |-> 0,
            clones |-> 0, is_dones |-> 0],
   outcome |-> "none", u |-> None, unapplies |-> 0, unapplied |-> 0,
   accepts |-> 0, is_dones |-> 0, done_arg |-> 0, done_seen |-> FALSE,
   clones |-> 0, pass_moves |-> 0, pass_decays |-> 0, visited |-> <<>>]

\* the call do_annealing(thread_id, annealer, opt, seed), before its first line
EnterRun(tid, s, isThread) ==
  [IdleRun EXCEPT !.pc = "init", !.seed = s, !.thread_id = tid, !.spawned = isThread]

\* ---- do_annealing ----------------------------------------------------------
\* DecayOf with the ratio inverted: (t_max / t_min)
DecayOf_Inverted(t_min, t_max, steps) == (t_max - t_min) \div steps

\* ((t_min / t_max).ln() / step).exp(), on exponents
DecayOf(t_min, t_max, steps) == (t_min - t_max) \div steps

\* MulTemp without the multiplication
MulTemp_Stuck(temp, decay) == temp

\* temp *= decay, on exponents; the product saturates at +inf
MulTemp(temp, decay) ==
  IF temp >= TempInf THEN TempInf ELSE Min(temp + decay, TempInf)

\* u <= ((cur_score - new_score) / temp).exp() with u = 2^(-v)
MetropolisLe(v, diff, temp) ==
  IF temp >= TempInf THEN TRUE
  ELSE IF temp >= 0 THEN v * (2 ^ temp) >= 0 - diff
  ELSE v >= (0 - diff) * (2 ^ (0 - temp))

\* lines 72-102: seed the generator, build and score the initial state, set up
\* the schedule
DoInit(a, o, r) ==
  LET g0 == SmallSeedFromU64(r.seed)
      g1 == SmallGen(g0)
      s == init_state(g1)
  IN  IF eval_panics(a, s)
      THEN [r EXCEPT !.pc = "panicked", !.rng = g1, !.state = s, !.exit = "panic"]
      ELSE LET sc == eval(a, s)
               tmax == start_temp(a, sc)
               tmin == o.limit_temp
           IN  [r EXCEPT !.pc = "loop", !.rng = g1, !.state = s,
                         !.cur_score = sc, !.best_score = sc, !.best_ans = s,
                         !.restart_cnt = 0, !.t_max = tmax, !.t_min = tmin,
                         !.decay = DecayOf(tmin, tmax, o.steps), !.temp = tmax,
                         !.init_score = sc, !.clones = 1, !.visited = <<s>>]

\* LoopHead whose reheat takes the search back to the best state
LoopHead_FromBest(o, r) ==
  IF r.temp < r.t_min
  THEN LET cnt == r.restart_cnt + 1
       IN  IF cnt >= o.restart
           THEN [r EXCEPT !.restart_cnt = cnt, !.pc = "done", !.exit = "restart"]
           ELSE [r EXCEPT !.restart_cnt = cnt, !.temp = r.t_max,
                          !.state = r.best_ans, !.cur_score = r.best_score,
                          !.reheats = r.reheats + 1, !.pc = "propose",
                          !.pass_moves = 0, !.pass_decays = 0]
  ELSE [r EXCEPT !.pc = "propose"]

\* LoopHead whose reheat leaves the temperature where it is
LoopHead_NoReset(o, r) ==
  IF r.temp < r.t_min
  THEN LET cnt == r.restart_cnt + 1
       IN  IF cnt >= o.restart
           THEN [r EXCEPT !.restart_cnt = cnt, !.pc = "done", !.exit = "restart"]
           ELSE [r EXCEPT !.restart_cnt = cnt,
                          !.reheats = r.reheats + 1, !.pc = "propose",
                          !.pass_moves = 0, !.pass_decays = 0]
  ELSE [r EXCEPT !.pc = "propose"]

\* LoopHead that takes a temperature equal to t_min for one below it
LoopHead_Inclusive(o, r) ==
  IF r.temp <= r.t_min
  THEN LET cnt == r.restart_cnt + 1
       IN  IF cnt >= o.restart
           THEN [r EXCEPT !.restart_cnt = cnt, !.pc = "done", !.exit = "restart"]
           ELSE [r EXCEPT !.restart_cnt = cnt, !.temp = r.t_max,
                          !.reheats = r.reheats + 1, !.pc = "propose",
                          !.pass_moves = 0, !.pass_decays = 0]
  ELSE [r EXCEPT !.pc = "propose"]

\* LoopHead with the limit tested by > in place of >=
LoopHead_Late(o, r) ==
  IF r.temp < r.t_min
  THEN LET cnt == r.restart_cnt + 1
       IN  IF cnt > o.restart
           THEN [r EXCEPT !.restart_cnt = cnt, !.pc = "done", !.exit = "restart"]
           ELSE [r EXCEPT !.restart_cnt = cnt, !.temp = r.t_max,
                          !.reheats = r.reheats + 1, !.pc = "propose",
                          !.pass_moves = 0, !.pass_decays = 0]
  ELSE [r EXCEPT !.pc = "propose"]

\* lines 104-111: the reheat check at the top of the loop
LoopHead(o, r) ==
  IF r.temp < r.t_min
  THEN LET cnt == r.restart_cnt + 1
       IN  IF cnt >= o.restart
           THEN [r EXCEPT !.restart_cnt = cnt, !.pc = "done", !.exit = "restart"]
           ELSE [r EXCEPT !.restart_cnt = cnt, !.temp = r.t_max,
                          !.reheats = r.reheats + 1, !.pc = "propose",
                          !.pass_moves = 0, !.pass_decays = 0]
  ELSE [r EXCEPT !.pc = "propose"]

\* lines 113-114: draw a move and apply it
Propose(a, r) ==
  LET g == SmallGen(r.rng)
      m == neighbour(r.state, g)
  IN  IF apply_and_eval_panics(a, r.state, m)
      THEN [r EXCEPT !.pc = "panicked", !.rng = g, !.mov = m,
                     !.state = apply(r.state, m), !.exit = "panic",
                     !.pre = Snapshot(r), !.pass_moves = r.pass_moves + 1]
      ELSE LET ae == apply_and_eval(a, r.state, m, r.cur_score)
           IN  [r EXCEPT !.pc = "decide", !.rng = g, !.mov = m,
                         !.state = ae.state, !.new_score = ae.score,
                         !.pre = Snapshot(r), !.pass_moves = r.pass_moves + 1]

\* Accepts without the Metropolis branch
Accepts_Greedy(r, g) == r.new_score <= r.cur_score

\* line 116-117: the acceptance test; the draw is made only for a worse score
Accepts(r, g) ==
  \/ r.new_score <= r.cur_score
  \/ MetropolisLe(GenUniform(g), r.cur_score - r.new_score, r.temp)

\* TakeMove without the comparison: every accepted move becomes the best
TakeMove_Always(r) ==
  [r EXCEPT !.cur_score = r.new_score, !.best_score = r.new_score,
            !.best_ans = r.state, !.clones = r.clones + 1]

\* TakeMove that leaves cur_score at the score of the state moved away from
TakeMove_KeepScore(r) ==
  IF r.new_score < r.best_score
  THEN [r EXCEPT !.best_score = r.new_score,
                 !.best_ans = r.state, !.clones = r.clones + 1]
  ELSE r

\* TakeMove that also takes a score equal to the best for a new best
TakeMove_OnTie(r) ==
  IF r.new_score <= r.best_score
  THEN [r EXCEPT !.cur_score = r.new_score, !.best_score = r.new_score,
                 !.best_ans = r.state, !.clones = r.clones + 1]
  ELSE [r EXCEPT !.cur_score = r.new_score]

\* TakeMove that records the new best score without copying the state
TakeMove_NoClone(r) ==
  IF r.new_score < r.best_score
  THEN [r EXCEPT !.cur_score = r.new_score, !.best_score = r.new_score]
  ELSE [r EXCEPT !.cur_score = r.new_score]

\* lines 119-126: the accepted move becomes current, and best when lower
TakeMove(r) ==
  IF r.new_score < r.best_score
  THEN [r EXCEPT !.cur_score = r.new_score, !.best_score = r.new_score,
                 !.best_ans = r.state, !.clones = r.clones + 1]
  ELSE [r EXCEPT !.cur_score = r.new_score]

\* line 134: temp *= decay at the end of a loop turn
Cool(r) ==
  [r EXCEPT !.pc = "loop", !.temp = MulTemp(r.temp, r.decay),
            !.pass_decays = r.pass_decays + 1]

\* CheckDone that goes on to the next turn without cooling
CheckDone_NoCool(a, r) ==
  LET r1 == [r EXCEPT !.is_dones = r.is_dones + 1, !.done_arg = r.cur_score]
  IN  IF is_done(a, r.cur_score)
      THEN [r1 EXCEPT !.pc = "done", !.exit = "is_done", !.done_seen = TRUE]
      ELSE [r1 EXCEPT !.pc = "loop"]

\* lines 127-129: is_done on the current score; true leaves the loop
CheckDone(a, r) ==
  LET r1 == [r EXCEPT !.is_dones = r.is_dones + 1, !.done_arg = r.cur_score]
  IN  IF is_done(a, r.cur_score)
      THEN [r1 EXCEPT !.pc = "done", !.exit = "is_done", !.done_seen = TRUE]
      ELSE Cool(r1)

Reject_Forgotten(r) ==
  [r EXCEPT !.outcome = "rejected"]

\* lines 130-132: the rejected move is taken back
Reject(r) ==
  [r EXCEPT !.state = unapply(r.state, r.mov), !.outcome = "rejected",
            !.unapplies = r.unapplies + 1, !.unapplied = r.mov]

\* Decide that asks is_done about the new score before the move is taken over
Decide_DoneFirst(a, r) ==
  LET drawn == ~(r.new_score <= r.cur_score)
      g == IF drawn THEN SmallGen(r.rng) ELSE r.rng
      r1 == [r EXCEPT !.rng = g, !.u = IF drawn THEN GenUniform(g) ELSE None]
  IN  IF Accepts(r, g)
      THEN LET r2 == [r1 EXCEPT !.outcome = "accepted",
                                !.accepts = r.accepts + 1,
                                !.visited = Append(r.visited, r.state),
                                !.is_dones = r.is_dones + 1,
                                !.done_arg = r.new_score]
           IN  IF is_done(a, r.new_score)
               THEN [r2 EXCEPT !.pc = "done", !.exit = "is_done",
                               !.cur_score = r.new_score, !.done_seen = TRUE]
               ELSE Cool(TakeMove(r2))
      ELSE Cool(Reject(r1))

\* lines 116-134: accept or reject, then cool
Decide(a, r) ==
  LET drawn == ~(r.new_score <= r.cur_score)
      g == IF drawn THEN SmallGen(r.rng) ELSE r.rng
      r1 == [r EXCEPT !.rng = g, !.u = IF drawn THEN GenUniform(g) ELSE None]
  IN  IF Accepts(r, g)
      THEN LET r2 == TakeMove(r1)
           IN  CheckDone(a, [r2 EXCEPT !.outcome = "accepted",
                                       !.accepts = r.accepts + 1,
                                       !.visited = Append(r.visited, r.state)])
      ELSE Cool(Reject(r1))

\* line 136
RunResult(r) == [score |-> r.best_score, state |-> r.best_ans]

\* one step of do_annealing from the frame r
StepOf(a, o, r) ==
  CASE r.pc = "init" -> DoInit(a, o, r)
    [] r.pc = "loop" -> LoopHead(o, r)
    [] r.pc = "propose" -> Propose(a, r)
    [] r.pc = "decide" -> Decide(a, r)
    [] OTHER -> r

\* do_annealing run from the frame r until it returns or unwinds
RECURSIVE RunToEnd(_, _, _)
RunToEnd(a, o, r) ==
  IF r.pc \in {"done", "panicked"} THEN r ELSE RunToEnd(a, o, StepOf(a, o, r))

\* do_annealing(None, annealer, opt, s) run alone to its end
Solo(a, o, s) == RunToEnd(a, o, EnterRun(None, s, FALSE))

\* the number of steps a frame has taken
Tick(r) == [r EXCEPT !.iters = r.iters + 1]

\* the steps a do_annealing frame is followed for: as many as a run that ends
\* on its restart budget takes under the options o (INIT, three steps per loop
\* turn, steps + 1 turns per cooling pass, the final reheat check), so only
\* runs that never end are cut short
MaxIters(o) == 3 * (o.steps + 1) * (IF o.restart > 1 THEN o.restart ELSE 1) + 2

Followed(r) == r.iters < MaxIters(opt)

\* ---- the steps of a do_annealing frame -------------------------------------
\* RunInit with the generator seeded from entropy in place of the seed
RunInit_Entropy(r) ==
  /\ run[r].pc = "init"
  /\ Followed(run[r])
  /\ \E s \in Seeds :
       run' = [run EXCEPT ![r] = Tick(DoInit(annealer, opt, [run[r] EXCEPT !.seed = s]))]
  /\ UNCHANGED <<opt, seed, annealer, call>>

RunInit(r) ==
  /\ run[r].pc = "init"
  /\ Followed(run[r])
  /\ run' = [run EXCEPT ![r] = Tick(DoInit(annealer, opt, run[r]))]
  /\ UNCHANGED <<opt, seed, annealer, call>>

RunLoopHead(r) ==
  /\ run[r].pc = "loop"
  /\ Followed(run[r])
  /\ run' = [run EXCEPT ![r] = Tick(LoopHead(opt, run[r]))]
  /\ UNCHANGED <<opt, seed, annealer, call>>

RunPropose(r) ==
  /\ run[r].pc = "propose"
  /\ Followed(run[r])
  /\ run' = [run EXCEPT ![r] = Tick(Propose(annealer, run[r]))]
  /\ UNCHANGED <<opt, seed, annealer, call>>

RunDecide(r) ==
  /\ run[r].pc = "decide"
  /\ Followed(run[r])
  /\ run' = [run EXCEPT ![r] = Tick(Decide(annealer, run[r]))]
  /\ UNCHANGED <<opt, seed, annealer, call>>

RunStep(r) == RunInit(r) \/ RunLoopHead(r) \/ RunPropose(r) \/ RunDecide(r)

\* lines 103-135: one whole turn of the loop, from the reheat check to the
\* cooling step, or to the point where the turn leaves the loop or unwinds
TurnOf(a, o, r) ==
  LET r1 == Tick(LoopHead(o, r))
  IN  IF r1.pc # "propose" THEN r1
      ELSE LET r2 == Tick(Propose(a, r1))
           IN  IF r2.pc # "decide" THEN r2 ELSE Tick(Decide(a, r2))

RunTurn(r) ==
  /\ run[r].pc = "loop"
  /\ Followed(run[r])
  /\ run' = [run EXCEPT ![r] = TurnOf(annealer, opt, run[r])]
  /\ UNCHANGED <<opt, seed, annealer, call>>

\* a do_annealing frame followed turn by turn: the frames of one call share
\* nothing, so the order of their steps within a turn shows in no result
RunByTurns(r) == RunInit(r) \/ RunTurn(r)

\* ---- annealing -------------------------------------------------------------
\* the controlling generator after k draws
RECURSIVE CtlAfter(_, _)
CtlAfter(s, k) == IF k = 0 THEN StdSeedFromU64(s) ELSE StdGen(CtlAfter(s, k - 1))

\* the i-th sub-seed drawn from the controlling generator seeded with s
SubSeed(s, i) == GenSeed(CtlAfter(s, i + 1))

\* a frame of annealing that has not been entered
IdleCall == [pc |-> "off", rng |-> None, i |-> 0, j |-> 0, acc |-> NoResult,
             result |-> NoResult]

\* MinBy that lets a later equal element replace the earlier one
MinBy_Last(x, y) == IF x.score >= y.score THEN y ELSE x

\* MinBy with the comparison reversed: the greater element is kept
MinBy_Max(x, y) == IF x.score < y.score THEN y ELSE x

\* Iterator::min_by step: the earlier element is kept unless it is greater
MinBy(x, y) == IF x.score > y.score THEN y ELSE x

\* the failure found only at the reduction: the controlling generator is
\* seeded, the spawn loop does not turn, and min_by yields nothing to unwrap
CallAssertFails_Late(c) ==
  /\ call[c].pc = "start"
  /\ ~(opt.threads > 0)
  /\ call' = [call EXCEPT ![c].pc = "aborted", ![c].rng = StdSeedFromU64(seed)]
  /\ UNCHANGED <<opt, seed, annealer, run>>

\* line 42: assert!(opt.threads > 0)
CallAssertFails(c) ==
  /\ call[c].pc = "start"
  /\ ~(opt.threads > 0)
  /\ call' = [call EXCEPT ![c].pc = "aborted"]
  /\ UNCHANGED <<opt, seed, annealer, run>>

\* SyncSeed drawn from a controlling generator, as for a worker
SyncSeed_Derived(c) == SubSeed(seed, 0)

\* lines 44-45: the single-threaded branch enters do_annealing in the caller
\* with the seed it was given
SyncSeed(c) == seed

CallSync(c) ==
  /\ call[c].pc = "start"
  /\ opt.threads = 1
  /\ call' = [call EXCEPT ![c].pc = "sync"]
  /\ run' = [run EXCEPT ![<<c, 0>>] = EnterRun(None, SyncSeed(c), FALSE)]
  /\ UNCHANGED <<opt, seed, annealer>>

\* line 45: do_annealing returned (or unwound) into annealing
SyncReturn(c) ==
  /\ call[c].pc = "sync"
  /\ \/ /\ run[<<c, 0>>].pc = "done"
        /\ call' = [call EXCEPT ![c].pc = "returned",
                                 ![c].result = RunResult(run[<<c, 0>>])]
     \/ /\ run[<<c, 0>>].pc = "panicked"
        /\ call' = [call EXCEPT ![c].pc = "aborted"]
  /\ UNCHANGED <<opt, seed, annealer, run>>

\* lines 47-48: the multi-threaded branch seeds the controlling generator
CallParallel(c) ==
  /\ call[c].pc = "start"
  /\ opt.threads > 1
  /\ call' = [call EXCEPT ![c].pc = "spawning", ![c].rng = StdSeedFromU64(seed),
                           ![c].i = 0]
  /\ UNCHANGED <<opt, seed, annealer, run>>

\* lines 50-57: one turn of the spawn loop
Spawn(c) ==
  /\ call[c].pc = "spawning"
  /\ call[c].i < opt.threads
  /\ LET g == StdGen(call[c].rng)
         tl_seed == GenSeed(g)
         i == call[c].i
     IN  /\ run' = [run EXCEPT ![<<c, i>>] = EnterRun(i, tl_seed, TRUE)]
         /\ call' = [call EXCEPT ![c].rng = g, ![c].i = i + 1,
                                  ![c].pc = IF i + 1 = opt.threads
                                            THEN "joining" ELSE "spawning"]
  /\ UNCHANGED <<opt, seed, annealer>>

\* lines 59-62: join the next thread in spawn order and fold it into the minimum
JoinFold(cl, res, n) ==
  LET acc == IF cl.acc = NoResult THEN res ELSE MinBy(cl.acc, res)
  IN  IF cl.j + 1 = n
      THEN [cl EXCEPT !.j = cl.j + 1, !.acc = acc, !.result = acc, !.pc = "returned"]
      ELSE [cl EXCEPT !.j = cl.j + 1, !.acc = acc]

\* Join that drops a failed worker from the reduction
Join_SkipFailed(c) ==
  /\ call[c].pc = "joining"
  /\ call[c].j < opt.threads
  /\ LET r == run[<<c, call[c].j>>]
     IN  \/ /\ r.pc = "done"
            /\ call' = [call EXCEPT ![c] = JoinFold(call[c], RunResult(r), opt.threads)]
         \/ /\ r.pc = "panicked"
            /\ call' = [call EXCEPT ![c] =
                          IF call[c].j + 1 = opt.threads
                          THEN [call[c] EXCEPT !.j = call[c].j + 1,
                                               !.result = call[c].acc,
                                               !.pc = "returned"]
                          ELSE [call[c] EXCEPT !.j = call[c].j + 1]]
  /\ UNCHANGED <<opt, seed, annealer, run>>

Join(c) ==
  /\ call[c].pc = "joining"
  /\ call[c].j < opt.threads
  /\ LET r == run[<<c, call[c].j>>]
     IN  \/ /\ r.pc = "done"
            /\ call' = [call EXCEPT ![c] = JoinFold(call[c], RunResult(r), opt.threads)]
         \/ /\ r.pc = "panicked"
            /\ call' = [call EXCEPT ![c].pc = "aborted"]
  /\ UNCHANGED <<opt, seed, annealer, run>>

CallStep(c) ==
  CallAssertFails(c) \/ CallSync(c) \/ SyncReturn(c) \/ CallParallel(c)
    \/ Spawn(c) \/ Join(c)

\* ---- specifications --------------------------------------------------------
InitInputs ==
  /\ opt \in Opts
  /\ annealer \in Annealers
  /\ seed \in Seeds
  /\ ExactInputs(opt, annealer)
  /\ run = [r \in Runs |-> IdleRun]

\* one invocation of annealing
Init ==
  /\ InitInputs
  /\ call = [c \in Calls |-> IF c = 1 THEN [IdleCall EXCEPT !.pc = "start"]
                                       ELSE IdleCall]

\* the call and its do_annealing frames, each frame followed turn by turn
Next ==
  \/ CallStep(1)
  \/ \E i \in Slots : RunByTurns(<<1, i>>)

Spec == Init /\ [][Next]_vars

\* one single-threaded invocation, whose do_annealing frame is followed step
\* by step within each loop turn and keeps being scheduled until it ends
InitSolo ==
  /\ Init
  /\ opt.threads = 1

NextSolo == CallSync(1) \/ SyncReturn(1) \/ RunStep(<<1, 0>>)

FairSpec == InitSolo /\ [][NextSolo]_vars /\ WF_vars(RunStep(<<1, 0>>))

\* the same invocation without the scheduling assumption: one do_annealing
\* followed step by step
SpecSolo == InitSolo /\ [][NextSolo]_vars

\* two invocations of annealing on the same inputs, single-threaded
InitPair ==
  /\ InitInputs
  /\ opt.threads = 1
  /\ call = [c \in Calls |-> [IdleCall EXCEPT !.pc = "start"]]

NextPair ==
  \E c \in Calls : CallSync(c) \/ SyncReturn(c) \/ RunStep(<<c, 0>>)

SpecPair == InitPair /\ [][NextPair]_vars

\* ---- reference values ------------------------------------------------------
\* the frames of invocation c that were entered
Workers(c) == {i \in Slots : i < opt.threads}

Running(r) == r.pc \in {"loop", "propose", "decide"}

Finished(r) == r.pc \in {"done", "panicked"}

SetMin(S) == CHOOSE x \in S : \A y \in S : x <= y

\* ---- claims ----------------------------------------------------------------

\* C1: in every state of every run past INIT, and in the pair a run returns,
\* best_score is at most the score eval(init_state()) computed at INIT.
C1_BestNeverAboveInit ==
  /\ \A r \in Runs :
       (Running(run[r]) \/ run[r].pc = "done") =>
         /\ run[r].init_score =
              eval(annealer, init_state(SmallGen(SmallSeedFromU64(run[r].seed))))
         /\ run[r].best_score <= run[r].init_score
         /\ RunResult(run[r]).score <= run[r].init_score
  /\ (call[1].pc = "returned" /\ opt.threads = 1) =>
       call[1].result.score <= run[<<1, 0>>].init_score

\* a run that found a better state, accepted worse moves after it, reheated,
\* and returned from a state that is worse than its best
C1_Witness ==
  \E r \in Runs :
    /\ run[r].pc = "done"
    /\ run[r].reheats >= 1
    /\ run[r].best_score < run[r].init_score
    /\ run[r].cur_score > run[r].best_score

\* C2: with threads = N > 1 the returned score is the minimum over i < N of
\* the final score of do_annealing run alone on the i-th sub-seed of the
\* controlling generator seeded with the top-level seed.
C2_ParallelScoreIsMinOfSolo ==
  (call[1].pc = "returned" /\ opt.threads > 1) =>
    LET solo == {Solo(annealer, opt, SubSeed(seed, i)).best_score : i \in Workers(1)}
    IN  /\ call[1].result.score = SetMin(solo)
        /\ \A s \in solo : call[1].result.score <= s

\* a parallel call that returned although its workers ended on different scores
C2_Witness ==
  /\ call[1].pc = "returned"
  /\ opt.threads > 1
  /\ \E i, k \in Workers(1) :
       /\ i < k
       /\ run[<<1, i>>].best_score > run[<<1, k>>].best_score
       /\ run[<<1, i>>].seed # run[<<1, k>>].seed

\* C3: the reheats performed never exceed restart; every fall of the
\* temperature below t_min increments the counter, and a counter that has
\* reached restart ends the run with (best_score, best_ans) instead of a reheat.
C3_ReheatsWithinRestart ==
  \A r \in Runs :
    /\ run[r].reheats <= opt.restart
    /\ Running(run[r]) => run[r].reheats = run[r].restart_cnt
    /\ (run[r].restart_cnt >= 1 /\ run[r].restart_cnt >= opt.restart) =>
         /\ run[r].pc = "done"
         /\ run[r].exit = "restart"
         /\ run[r].reheats = run[r].restart_cnt - 1
         /\ run[r].temp < run[r].t_min

\* a run that reheated restart - 1 times and then ended on the counter
C3_Witness ==
  \E r \in Runs :
    /\ run[r].pc = "done"
    /\ run[r].exit = "restart"
    /\ opt.restart >= 2
    /\ run[r].reheats = opt.restart - 1

\* the precondition of termination, for the frame r
SchedulePre(r) ==
  /\ opt.steps >= 1
  /\ opt.restart >= 1
  /\ IF r.pc = "init"
     THEN opt.limit_temp <
            start_temp(annealer,
                       eval(annealer, init_state(SmallGen(SmallSeedFromU64(r.seed)))))
     ELSE r.t_min < r.t_max

\* C4: with limit_temp < start_temp(init_score), steps >= 1 and restart >= 1 an
\* entered run eventually ends, and a run that left its loop left it either
\* with the reheat counter at restart or with is_done true of the score of the
\* move it just accepted.
C4_RunTerminates ==
  /\ \A i \in Slots :
       (run[<<1, i>>].pc # "idle" /\ SchedulePre(run[<<1, i>>]))
         ~> Finished(run[<<1, i>>])
  /\ [](\A r \in Runs :
          run[r].pc = "done" =>
            \/ /\ run[r].temp < run[r].t_min
               /\ run[r].restart_cnt >= 1
               /\ run[r].restart_cnt >= opt.restart
               /\ run[r].exit = "restart"
            \/ /\ is_done(annealer, run[r].cur_score)
               /\ run[r].cur_score = run[r].new_score
               /\ run[r].exit = "is_done")

\* a run on a cooling schedule, under an annealer that overrides is_done, that
\* reheated and was ended by the counter
C4_Witness ==
  \E r \in Runs :
    /\ run[r].pc = "done"
    /\ annealer.doneBelow # None
    /\ SchedulePre(run[r])
    /\ run[r].exit = "restart"
    /\ run[r].reheats >= 1

FirstMin(score) ==
  LET m == SetMin({score[i] : i \in Workers(1)})
  IN  SetMin({i \in Workers(1) : score[i] = m})

\* C6: with threads > 1 the returned pair does not depend on the order in which
\* the workers run and finish: it is the pair of the first worker in spawn
\* order among those with the minimum score, each worker's pair being what
\* do_annealing yields alone on its sub-seed.
C6_ResultIndependentOfOrder ==
  (call[1].pc = "returned" /\ opt.threads > 1) =>
    LET solo == [i \in Workers(1) |-> RunResult(Solo(annealer, opt, SubSeed(seed, i)))]
        first == FirstMin([i \in Workers(1) |-> solo[i].score])
    IN  /\ \A i \in Workers(1) : RunResult(run[<<1, i>>]) = solo[i]
        /\ call[1].result = solo[first]
        /\ call[1].result = RunResult(run[<<1, first>>])

\* a returned parallel call in which two workers tie on the minimum score with
\* different states
C6_Witness ==
  /\ call[1].pc = "returned"
  /\ opt.threads > 1
  /\ \E i, k \in Workers(1) :
       /\ i < k
       /\ run[<<1, i>>].best_score = call[1].result.score
       /\ run[<<1, k>>].best_score = call[1].result.score
       /\ run[<<1, i>>].best_ans # run[<<1, k>>].best_ans

\* C7: with threads == 0 the call aborts before any work: no do_annealing frame
\* is entered (no init_state, eval or neighbour), the controlling generator is
\* not seeded, no worker is spawned and no result is returned.
C7_ZeroThreadsAborts ==
  opt.threads = 0 =>
    /\ call[1].pc \in {"start", "aborted"}
    /\ call[1].rng = None
    /\ call[1].i = 0 /\ call[1].j = 0
    /\ call[1].result = NoResult
    /\ \A i \in Slots : run[<<1, i>>] = IdleRun

\* the call made with threads == 0 has aborted
C7_Witness == opt.threads = 0 /\ call[1].pc = "aborted"

\* C8: with threads > 1, once a worker has failed the call returns no result,
\* whatever the other workers completed with; a multi-threaded call that
\* aborted did so on a failed worker, at the join, with nothing returned.
C8_WorkerFailureAbortsCall ==
  opt.threads > 1 =>
    /\ (\E i \in Workers(1) : run[<<1, i>>].pc = "panicked") =>
         (call[1].pc # "returned" /\ call[1].result = NoResult)
    /\ call[1].pc = "aborted" =>
         /\ call[1].result = NoResult
         /\ call[1].j < opt.threads
         /\ run[<<1, call[1].j>>].pc = "panicked"

\* the call aborted on a failed worker although every other worker completed
\* with a result
C8_Witness ==
  /\ opt.threads > 1
  /\ call[1].pc = "aborted"
  /\ run[<<1, call[1].j>>].pc = "panicked"
  /\ \A i \in Workers(1) : i # call[1].j => run[<<1, i>>].pc = "done"

\* C9: with threads == 1 no worker is spawned and no sub-seed is derived: the
\* one do_annealing frame is entered in the caller with the caller's seed and
\* no thread index, and the call returns exactly what do_annealing yields
\* alone on that seed.
C9_SingleThreadIsSolo ==
  opt.threads = 1 =>
    /\ call[1].rng = None
    /\ call[1].pc \in {"start", "sync", "returned", "aborted"}
    /\ \A i \in Slots : ~run[<<1, i>>].spawned
    /\ \A i \in Slots \ {0} : run[<<1, i>>] = IdleRun
    /\ run[<<1, 0>>].pc # "idle" =>
         (run[<<1, 0>>].seed = seed /\ run[<<1, 0>>].thread_id = None)
    /\ call[1].pc = "returned" =>
         call[1].result = RunResult(Solo(annealer, opt, seed))

\* a single-threaded call returned the result of a run that improved on its
\* initial state, on a seed that differs from the sub-seed a worker would get
C9_Witness ==
  /\ opt.threads = 1
  /\ call[1].pc = "returned"
  /\ seed # SubSeed(seed, 0)
  /\ call[1].result.score < run[<<1, 0>>].init_score

\* C10: with limit_temp < start_temp the temperature of a run falls strictly
\* with every loop turn that does not end the run, stays put between the
\* reheat check and the end of the turn, and rises only at a reheat, which
\* sets it to exactly t_max.
C10_TemperatureDecreases ==
  [][\A r \in Runs :
       (Running(run[r]) /\ run[r].t_min < run[r].t_max) =>
         /\ (run[r].pc = "decide" /\ run'[r].pc = "loop") =>
              run'[r].temp < run[r].temp
         /\ run[r].pc = "propose" => run'[r].temp = run[r].temp
         /\ run'[r].temp > run[r].temp =>
              /\ run[r].pc = "loop"
              /\ run[r].temp < run[r].t_min
              /\ run'[r].temp = run[r].t_max
              /\ run'[r].reheats = run[r].reheats + 1
         /\ (run[r].pc = "loop" /\ run'[r].temp # run[r].temp) =>
              run'[r].temp > run[r].temp]_vars

\* a run on a cooling schedule back at the top of its loop after a reheat and
\* a cooling step below t_max
C10_Witness ==
  \E r \in Runs :
    /\ run[r].pc = "loop"
    /\ run[r].t_min < run[r].t_max
    /\ run[r].reheats >= 1
    /\ run[r].temp < run[r].t_max
    /\ run[r].temp >= run[r].t_min

\* ---------------------------------------------------------------------------
\* the frame right after a move was decided: the loop is back at its head, or
\* was left through is_done
Decided(r) ==
  /\ run[r].outcome # "none"
  /\ \/ run[r].pc = "loop"
     \/ run[r].pc = "done" /\ run[r].exit = "is_done"

\* C11: when a move is rejected, unapply is called exactly once, with the move
\* that apply_and_eval applied, and the state is again the state from before
\* the proposal while cur_score, best_score and best_ans are as they were;
\* when a move is accepted unapply is not called.
C11_RejectUndoesMove ==
  \A r \in Runs :
    Decided(r) =>
      LET f == run[r]
      IN  /\ f.outcome = "rejected" =>
               /\ f.unapplies = f.pre.unapplies + 1
               /\ f.unapplied = f.mov
               /\ f.state = f.pre.state
               /\ f.cur_score = f.pre.cur_score
               /\ f.best_score = f.pre.best_score
               /\ f.best_ans = f.pre.best_ans
          /\ f.outcome = "accepted" =>
               /\ f.unapplies = f.pre.unapplies
               /\ f.state = apply(f.pre.state, f.mov)

\* a run that has rejected a move after having accepted others
C11_Witness ==
  \E r \in Runs :
    /\ Decided(r)
    /\ run[r].outcome = "rejected"
    /\ run[r].accepts >= 1
    /\ run[r].state # run[r].visited[1]

\* C12: a move is accepted exactly when new_score <= cur_score or the uniform
\* draw u satisfies u <= exp((cur_score - new_score) / temp); a non-worsening
\* move is accepted at any temperature and without a draw from the generator;
\* on acceptance cur_score becomes new_score.
C12_AcceptanceRule ==
  \A r \in Runs :
    Decided(r) =>
      LET f == run[r]
          better == f.new_score <= f.pre.cur_score
          afterMove == SmallGen(f.pre.rng)
      IN  /\ f.outcome = "accepted" <=>
               \/ better
               \/ /\ f.u # None
                  /\ MetropolisLe(f.u, f.pre.cur_score - f.new_score, f.pre.temp)
          /\ better => /\ f.outcome = "accepted"
                       /\ f.u = None
                       /\ f.rng = afterMove
          /\ ~better => /\ f.rng = SmallGen(afterMove)
                        /\ f.u = GenUniform(f.rng)
          /\ f.outcome = "accepted" => f.cur_score = f.new_score

\* a worse move accepted on the draw
C12_Witness ==
  \E r \in Runs :
    /\ Decided(r)
    /\ run[r].outcome = "accepted"
    /\ run[r].new_score > run[r].pre.cur_score
    /\ run[r].u # None
    /\ run[r].temp < TempInf

\* the loop head finds the temperature below t_min after a pass that began at
\* t_max above t_min
PassOver(r) ==
  /\ run[r].pc = "loop"
  /\ run[r].t_min < run[r].t_max
  /\ run[r].temp < run[r].t_min

\* C13: a cooling pass that is_done does not cut short performs exactly `steps`
\* schedule steps: `steps` multiplications by decay bring the temperature from
\* t_max to t_min, and the pass has proposed exactly `steps` moves when the
\* temperature is found below t_min.
C13_PassTakesStepsMoves ==
  \A r \in Runs :
    /\ (run[r].pc = "loop" /\ run[r].t_min < run[r].t_max
          /\ run[r].pass_decays = opt.steps) => run[r].temp = run[r].t_min
    /\ PassOver(r) => /\ run[r].pass_moves = opt.steps
                      /\ run[r].pass_decays = opt.steps

\* the run was left at the loop head because the restart limit was reached
\* after a pass that began at t_max above t_min
LastPassOver(r) ==
  /\ run[r].pc = "done"
  /\ run[r].exit = "restart"
  /\ run[r].t_min < run[r].t_max

\* C13 as amended: `steps` multiplications by decay bring the temperature from
\* t_max exactly to t_min, which is not below t_min, so the pass proposes a
\* further move there: a complete pass proposes steps + 1 moves and multiplies
\* steps + 1 times before the temperature is found below t_min.
C13_PassTakesStepsPlusOne ==
  \A r \in Runs :
    LET f == run[r]
    IN  /\ (f.pc = "loop" /\ f.t_min < f.t_max) =>
             /\ f.pass_decays = opt.steps => f.temp = f.t_min
             /\ f.temp < f.t_min <=> f.pass_decays > opt.steps
             /\ f.pass_moves = f.pass_decays
        /\ (PassOver(r) \/ LastPassOver(r)) =>
             /\ f.pass_moves = opt.steps + 1
             /\ f.pass_decays = opt.steps + 1

\* the second pass of a run has come to its end
C13_Witness ==
  \E r \in Runs :
    /\ PassOver(r)
    /\ run[r].reheats >= 1
    /\ opt.steps >= 2
    /\ run[r].pass_moves = opt.steps + 1

\* neighbour and apply_and_eval are about to be called, or have just returned
\* and the move awaits the acceptance test
Proposing(r) == run[r].pc \in {"propose", "decide"}

\* C14: provided t_max >= t_min, every move is proposed and evaluated at a
\* temperature within [t_min, t_max]: a temperature below t_min is reset to
\* t_max, or ends the run, before the next proposal.
C14_ProposalsWithinRange ==
  \A r \in Runs :
    (Proposing(r) /\ run[r].t_max >= run[r].t_min) =>
      /\ run[r].temp >= run[r].t_min
      /\ run[r].temp <= run[r].t_max

\* a move proposed at the lowest temperature of a pass that followed a reheat
C14_Witness ==
  \E r \in Runs :
    /\ run[r].pc = "decide"
    /\ run[r].t_max > run[r].t_min
    /\ run[r].reheats >= 1
    /\ run[r].temp = run[r].t_min

\* the step in which run r resets its temperature at the loop head
ReheatStep(r) ==
  /\ run[r].pc = "loop"
  /\ run'[r].reheats = run[r].reheats + 1

\* C15: a reheat changes only the temperature, which is set to t_max, and the
\* reheat counter: the state, cur_score, best_score and best_ans (and the
\* generator and the schedule) are as the preceding pass left them.
C15_ReheatKeepsSearch ==
  [][\A r \in Runs :
       ReheatStep(r) =>
         /\ run'[r].temp = run[r].t_max
         /\ run'[r].restart_cnt = run[r].restart_cnt + 1
         /\ run'[r].state = run[r].state
         /\ run'[r].cur_score = run[r].cur_score
         /\ run'[r].best_score = run[r].best_score
         /\ run'[r].best_ans = run[r].best_ans
         /\ run'[r].rng = run[r].rng
         /\ run'[r].t_max = run[r].t_max
         /\ run'[r].t_min = run[r].t_min
         /\ run'[r].decay = run[r].decay
         /\ run'[r].pc = "propose"]_vars

\* a reheat has just been made away from the initial and from the best state
C15_Witness ==
  \E r \in Runs :
    /\ run[r].pc = "propose"
    /\ run[r].reheats >= 1
    /\ run[r].pass_moves = 0
    /\ run[r].temp = run[r].t_max
    /\ run[r].state # run[r].visited[1]
    /\ run[r].state # run[r].best_ans

\* C16: is_done is evaluated after every accepted move, on the new cur_score
\* and after the best-so-far update, and never after a rejected move; the first
\* time it returns true the run ends at once, with no further neighbour, apply,
\* unapply or reheat step, and the best_score it returns already counts that
\* move.
C16_DoneCheckedOnAccept ==
  \A r \in Runs :
    LET f == run[r]
    IN  /\ f.is_dones = f.accepts
        /\ Decided(r) =>
             /\ f.outcome = "accepted" =>
                  /\ f.is_dones = f.pre.is_dones + 1
                  /\ f.done_arg = f.new_score
                  /\ f.done_arg = f.cur_score
                  /\ is_done(annealer, f.cur_score) <=> f.pc = "done"
             /\ f.outcome = "rejected" => /\ f.is_dones = f.pre.is_dones
                                          /\ f.pc = "loop"
        /\ f.done_seen <=> (f.pc = "done" /\ f.exit = "is_done")
        /\ f.done_seen =>
             /\ f.outcome = "accepted"
             /\ is_done(annealer, f.done_arg)
             /\ f.state = apply(f.pre.state, f.mov)
             /\ f.temp = f.pre.temp
             /\ f.restart_cnt = f.pre.restart_cnt
             /\ f.unapplies = f.pre.unapplies
             /\ f.rng \in {SmallGen(f.pre.rng), SmallGen(SmallGen(f.pre.rng))}
             /\ RunResult(f).score = Min(f.pre.best_score, f.new_score)
             /\ f.new_score < f.pre.best_score => RunResult(f).state = f.state

\* a run ended by is_done on a move that was a new best
C16_Witness ==
  \E r \in Runs :
    /\ run[r].done_seen
    /\ run[r].new_score < run[r].pre.best_score
    /\ run[r].best_score = run[r].new_score
    /\ run[r].best_ans # run[r].pre.best_ans

\* the temperature after k multiplications by decay from t_max (lines 102, 134)
ScheduleAt(f, k) == Min(f.t_max + k * f.decay, TempInf)

\* C17: every loop turn that does not end the run multiplies the temperature by
\* decay exactly once, after an accepted move as after a rejected one: the
\* temperature depends only on the number of turns since t_max was set, and
\* the reheat counter is not changed by the acceptance branch.
C17_CoolingIgnoresOutcome ==
  \A r \in Runs :
    LET f == run[r]
    IN  /\ (Decided(r) /\ f.pc = "loop") =>
             /\ f.temp = MulTemp(f.pre.temp, f.decay)
             /\ f.restart_cnt = f.pre.restart_cnt
             /\ f.pass_decays = f.pass_moves
        /\ f.pc \in {"loop", "propose", "decide"} =>
             f.temp = ScheduleAt(f, f.pass_decays)

\* a pass in which one move was accepted and another rejected
C17_Witness ==
  \E r \in Runs :
    /\ Decided(r)
    /\ run[r].pc = "loop"
    /\ run[r].accepts >= 1
    /\ run[r].unapplies >= 1
    /\ run[r].accepts + run[r].unapplies = run[r].pass_decays
    /\ run[r].temp < run[r].pre.temp

\* the scores of the first k states a run has stood on
ScoresOf(f, k) == {eval(annealer, f.visited[i]) : i \in 1 .. k}

\* the positions at which the run stood on a state better than all before it
NewBests(f) ==
  {i \in 2 .. Len(f.visited) :
     \A j \in 1 .. (i - 1) :
       eval(annealer, f.visited[i]) < eval(annealer, f.visited[j])}

\* the first position at which the run stood on a state of the given score
FirstAt(f, score) ==
  CHOOSE i \in 1 .. Len(f.visited) :
    /\ eval(annealer, f.visited[i]) = score
    /\ \A j \in 1 .. (i - 1) : eval(annealer, f.visited[j]) # score

\* C18: best_ans and best_score are replaced exactly when an accepted move
\* gives a cur_score strictly below best_score; an accepted move of equal or
\* higher score and every rejected move leave both as they were.  So best_ans
\* is the earliest state the run stood on that attains best_score, and the
\* state is cloned at INIT and at each new best only.
C18_BestReplacedOnStrictGain ==
  \A r \in Runs :
    LET f == run[r]
        gain == f.outcome = "accepted" /\ f.new_score < f.pre.best_score
    IN  /\ Decided(r) =>
             IF gain
             THEN /\ f.best_score = f.new_score
                  /\ f.best_ans = f.state
                  /\ f.clones = f.pre.clones + 1
             ELSE /\ f.best_score = f.pre.best_score
                  /\ f.best_ans = f.pre.best_ans
                  /\ f.clones = f.pre.clones
        /\ Len(f.visited) > 0 =>
             /\ f.best_score = SetMin(ScoresOf(f, Len(f.visited)))
             /\ f.best_ans = f.visited[FirstAt(f, f.best_score)]
             /\ f.clones = 1 + Cardinality(NewBests(f))

\* an accepted move that ties the best score of an earlier, different state
C18_Witness ==
  \E r \in Runs :
    /\ Decided(r)
    /\ run[r].outcome = "accepted"
    /\ run[r].new_score = run[r].pre.best_score
    /\ run[r].state # run[r].best_ans
    /\ run[r].clones = 1

\* C19: with an unapply that inverts apply and an apply_and_eval that agrees
\* with eval, cur_score is the score of the working state at the start of
\* every loop turn.
C19_CurScoreIsEvalOfState ==
  \A r \in Runs :
    run[r].pc \in {"loop", "propose"} =>
      run[r].cur_score = eval(annealer, run[r].state)

\* a loop turn starts after accepted and rejected moves, away from the start
C19_Witness ==
  \E r \in Runs :
    /\ run[r].pc = "loop"
    /\ run[r].accepts >= 1
    /\ run[r].unapplies >= 1
    /\ run[r].state # run[r].visited[1]
    /\ run[r].cur_score # run[r].init_score

\* C20: best_score is the score of best_ans, in every state of a run past INIT
\* and in the pair the run returns: best_ans is a copy of its own, which later
\* moves on the working state do not change.
C20_BestScoreIsEvalOfBest ==
  \A r \in Runs :
    /\ run[r].pc \in {"loop", "propose", "decide", "done"} =>
         run[r].best_score = eval(annealer, run[r].best_ans)
    /\ run[r].pc = "done" =>
         RunResult(run[r]).score = eval(annealer, RunResult(run[r]).state)

\* a run has returned a best state that it moved away from afterwards
C20_Witness ==
  \E r \in Runs :
    /\ run[r].pc = "done"
    /\ run[r].clones >= 2
    /\ run[r].state # run[r].best_ans
    /\ run[r].cur_score > run[r].best_score

====
